---- MODULE Spec2Model ----
(***************************************************************************)
(* Model of NgxLinkPreviewComponent (ngx-link-preview.component.ts): the   *)
(* preview orchestration of one or more component instances that share the *)
(* injected cache service, each with its own loading manager.              *)
(*                                                                         *)
(* Strings are sequences of UTF-16 code units (naturals), so that the      *)
(* link regex, btoa and encodeURI are computed rather than assumed.        *)
(***************************************************************************)
EXTENDS Integers, Sequences, FiniteSets, TLC

(***************************************************************************)
(* Bounds of the model.                                                    *)
(***************************************************************************)
MaxTriggers == 2
MaxRequests == 2

(***************************************************************************)
(* Characters.                                                             *)
(***************************************************************************)
Ord ==
  [ a |-> 97, b |-> 98, c |-> 99, d |-> 100, e |-> 101, f |-> 102, g |->
    103, h |-> 104, i |-> 105, j |-> 106, k |-> 107, l |-> 108, m |-> 109,
    n |-> 110, o |-> 111, p |-> 112, q |-> 113, r |-> 114, s |-> 115, t
    |-> 116, u |-> 117, v |-> 118, w |-> 119, x |-> 120, y |-> 121, z |->
    122, H |-> 72, P |-> 80, S |-> 83, T |-> 84, W |-> 87, sp |-> 32,
    colon |-> 58, slash |-> 47, dot |-> 46, comma |-> 44, qm |-> 63, eq
    |-> 61 ]

Lower == 97..122
Upper == 65..90
Digit == 48..57
AlNum == Lower \cup Upper \cup Digit

ToLower(c) == IF c \in Upper THEN c + 32 ELSE c

RECURSIVE Concat(_)
Concat(ss) == IF ss = <<>> THEN <<>> ELSE Head(ss) \o Concat(Tail(ss))

Min(a, b) == IF a < b THEN a ELSE b
Max(S) == CHOOSE x \in S : \A y \in S : y <= x

(***************************************************************************)
(* parseStringForLinks: msg.match(re) with flags g, i, m, where re is      *)
(*   http, optional s, ://, optional www. ,                                *)
(*   1 to 256 host characters, a dot, 1 to 6 tld characters, \b,           *)
(*   any number of path characters (one capture group).                    *)
(* Greedy, backtracking, leftmost, non-overlapping, case-insensitive.      *)
(***************************************************************************)
HostClass == AlNum \cup {45, 64, 58, 37, 46, 95, 43, 126, 35, 61}
TldClass == AlNum \cup {40, 41}
PathClass == AlNum \cup {45, 40, 41, 64, 58, 37, 95, 43, 46, 126, 35, 63, 38, 47, 61}
WordChar == AlNum \cup {95}
HostMax == 256
TldMax == 6

\* The literal lit matches msg at index p, ignoring case.
LitAt(msg, p, lit) ==
  /\ p + Len(lit) - 1 <= Len(msg)
  /\ \A i \in 1..Len(lit) : ToLower(msg[p + i - 1]) = lit[i]

IsWordAt(msg, i) == i >= 1 /\ i <= Len(msg) /\ msg[i] \in WordChar

\* \b between index i and index i + 1
BoundaryAfter(msg, i) == IsWordAt(msg, i) # IsWordAt(msg, i + 1)

AllIn(msg, from, to, class) ==
  /\ to <= Len(msg)
  /\ \A i \in from..to : msg[i] \in class

\* host of length hl starting at st, a dot, a tld of length tl, then \b
SplitAt(msg, st, hl, tl) ==
  /\ AllIn(msg, st, st + hl - 1, HostClass)
  /\ st + hl <= Len(msg)
  /\ msg[st + hl] = 46
  /\ AllIn(msg, st + hl + 1, st + hl + tl, TldClass)
  /\ BoundaryAfter(msg, st + hl + tl)

HostLens(msg, st) ==
  { hl \in 1..Min(HostMax, Len(msg)) : \E tl \in 1..TldMax : SplitAt(msg, st, hl, tl) }

\* index of the last tld character for the split the greedy matcher takes
\* first (longest host, then longest tld), 0 when no split matches
TldEnd(msg, st) ==
  IF HostLens(msg, st) = {} THEN 0
  ELSE LET hl == Max(HostLens(msg, st))
           tl == Max({ t \in 1..TldMax : SplitAt(msg, st, hl, t) })
       IN  st + hl + tl

\* index after the optional "s" of the scheme, 0 when "http" does not match
AfterScheme(msg, p) ==
  IF ~LitAt(msg, p, <<104, 116, 116, 112>>) THEN 0
  ELSE LET q == IF LitAt(msg, p + 4, <<115>>) THEN p + 5 ELSE p + 4
       IN  IF LitAt(msg, q, <<58, 47, 47>>) THEN q + 3 ELSE 0

RECURSIVE PathEnd(_, _)
\* last index of the greedy run of path characters that starts after index i
PathEnd(msg, i) ==
  IF i + 1 <= Len(msg) /\ msg[i + 1] \in PathClass THEN PathEnd(msg, i + 1) ELSE i

\* last index of the match that starts at p, 0 when there is none
MatchEnd(msg, p) ==
  LET a == AfterScheme(msg, p)
  IN  IF a = 0 THEN 0
      ELSE LET withWww == IF LitAt(msg, a, <<119, 119, 119, 46>>)
                          THEN TldEnd(msg, a + 4) ELSE 0
               te == IF withWww # 0 THEN withWww ELSE TldEnd(msg, a)
           IN  IF te = 0 THEN 0 ELSE PathEnd(msg, te)

RECURSIVE MatchAllFrom(_, _)
MatchAllFrom(msg, p) ==
  IF p > Len(msg) THEN <<>>
  ELSE LET e == MatchEnd(msg, p)
       IN  IF e = 0 THEN MatchAllFrom(msg, p + 1)
           ELSE <<SubSeq(msg, p, e)>> \o MatchAllFrom(msg, e + 1)

parseStringForLinks(msg) == MatchAllFrom(msg, 1)

(***************************************************************************)
(* encodeUrlSafe: encodeURI(btoa(url)).                                    *)
(***************************************************************************)
\* btoa throws InvalidCharacterError on a code unit above 0xFF
BtoaThrows(url) == \E i \in 1..Len(url) : url[i] > 255

B64Char(v) ==
  IF v < 26 THEN 65 + v
  ELSE IF v < 52 THEN 97 + (v - 26)
  ELSE IF v < 62 THEN 48 + (v - 52)
  ELSE IF v = 62 THEN 43 ELSE 47

B64Pad == 61

RECURSIVE btoa(_)
btoa(url) ==
  IF Len(url) = 0 THEN <<>>
  ELSE IF Len(url) = 1 THEN
    << B64Char(url[1] \div 4), B64Char((url[1] % 4) * 16), B64Pad, B64Pad >>
  ELSE IF Len(url) = 2 THEN
    << B64Char(url[1] \div 4),
       B64Char((url[1] % 4) * 16 + (url[2] \div 16)),
       B64Char((url[2] % 16) * 4), B64Pad >>
  ELSE
    << B64Char(url[1] \div 4),
       B64Char((url[1] % 4) * 16 + (url[2] \div 16)),
       B64Char((url[2] % 16) * 4 + (url[3] \div 64)),
       B64Char(url[3] % 64) >> \o btoa(SubSeq(url, 4, Len(url)))

\* encodeURI leaves A-Z a-z 0-9 ; , / ? : @ & = + $ - _ . ! ~ * ' ( ) # alone
UriUnescaped ==
  AlNum \cup {59, 44, 47, 63, 58, 64, 38, 61, 43, 36, 45, 95, 46, 33, 126, 42, 39, 40, 41, 35}

HexDigit(v) == IF v < 10 THEN 48 + v ELSE 65 + (v - 10)

PctByte(b) == << 37, HexDigit(b \div 16), HexDigit(b % 16) >>

\* UTF-8 percent-escape of one code unit below 0x800
PctEncode(c) ==
  IF c < 128 THEN PctByte(c)
  ELSE PctByte(192 + (c \div 64)) \o PctByte(128 + (c % 64))

encodeURI(str) ==
  Concat([ i \in 1..Len(str) |->
            IF str[i] \in UriUnescaped THEN << str[i] >> ELSE PctEncode(str[i]) ])

encodeUrlSafe(url) == encodeURI(btoa(url))

(***************************************************************************)
(* Inputs the parent component can bind.                                   *)
(***************************************************************************)
Str(names) == [ i \in DOMAIN names |-> Ord[names[i]] ]

\* "http://a.b"
UrlAB == Str(<<"h", "t", "t", "p", "colon", "slash", "slash", "a", "dot", "b">>)
\* "HTTP://www.c.de/x?y"
UrlCD == Str(<<"H", "T", "T", "P", "colon", "slash", "slash", "w", "w", "w", "dot",
               "c", "dot", "d", "e", "slash", "x", "qm", "y">>)
\* a string btoa cannot encode: one code unit above 0xFF
UrlWide == << 321 >>
\* "see http://a.b HTTP://www.c.de/x?y, ok"
TextTwoLinks ==
  Str(<<"s", "e", "e", "sp">>) \o UrlAB \o Str(<<"sp">>) \o UrlCD
    \o Str(<<"comma", "sp", "o", "k">>)
\* "api"
RouteApi == Str(<<"a", "p", "i">>)

\* the component instances, and those the page of Spec renders
Inst == {"A", "B"}
Page == {"A"}

\* the values the parent binds to links, parseForLinksStr and apiRoute;
\* <<>> stands for an unset (undefined) or empty string input: both are falsy
LinkLists ==
  {<<>>, <<UrlAB>>, <<UrlAB, UrlAB>>, <<UrlWide, UrlAB>>, <<UrlCD, UrlAB>>}
Texts == {<<>>, TextTwoLinks}
Routes == {<<>>, RouteApi}

Range(seq) == { seq[i] : i \in DOMAIN seq }

\* parseStringForLinks and encodeUrlSafe, tabulated over the strings the
\* inputs above can hand them
parsedLinks == [ t \in Texts |-> parseStringForLinks(t) ]

CandidateLinks ==
  UNION { Range(l) : l \in LinkLists } \cup UNION { Range(parsedLinks[t]) : t \in Texts }

encodedLinks ==
  [ u \in { x \in CandidateLinks : ~BtoaThrows(x) } |-> encodeUrlSafe(u) ]

\* @Input() queryParamName = 'url'
queryParamName == Str(<<"u", "r", "l">>)

(***************************************************************************)
(* NgxLinkPreviewCacheService and NgxLinkPreviewLoadingManager.            *)
(***************************************************************************)
Undefined == [undefined |-> TRUE]

getCacheItem(store, key) == IF key \in DOMAIN store THEN store[key] ELSE Undefined

updateCacheItem(store, key, value) ==
  [ k \in DOMAIN store \cup {key} |-> IF k = key THEN value ELSE store[k] ]

addTask(jobs, key) == jobs \cup {key}

removeTask(jobs, key) == jobs \ {key}

\* the value hasPendingJobs$ emits for a pending set
hasPendingJobs(jobs) == jobs # {}

(***************************************************************************)
(* State.                                                                  *)
(***************************************************************************)
VARIABLES
  links,               \* @Input() links, per instance
  parseForLinksStr,    \* @Input() parseForLinksStr
  apiRoute,            \* @Input() apiRoute (<<>> when unset)
  getApiEndpoint,      \* @Input() getApiEndpoint$ is bound
  useCache,            \* @Input() useCache
  scannedLinks,        \* private scannedLinks
  previews,            \* public previews
  pendingJobs,         \* the pending set of this.loadingMgr
  showLoadingSpinner,  \* public showLoadingSpinner
  loadingSubscription, \* "open" until ngOnDestroy, then "closed"
  cache,               \* the store of the shared cacheSvc
  requests,            \* every call of getApiEndpoint$, in call order
  runs,                \* number of ngOnChanges calls so far
  lastRun              \* per instance: number and outcome of its latest run

vars == << links, parseForLinksStr, apiRoute, getApiEndpoint, useCache,
           scannedLinks, previews, pendingJobs, showLoadingSpinner,
           loadingSubscription, cache, requests, runs, lastRun >>

inputs == << links, parseForLinksStr, apiRoute, getApiEndpoint, useCache >>

Init ==
  /\ links = [i \in Inst |-> <<>>]
  /\ parseForLinksStr = [i \in Inst |-> <<>>]
  /\ apiRoute = [i \in Inst |-> <<>>]
  /\ getApiEndpoint = [i \in Inst |-> FALSE]
  /\ useCache = [i \in Inst |-> TRUE]
  /\ scannedLinks = [i \in Inst |-> <<>>]
  /\ previews = [i \in Inst |-> <<>>]
  /\ pendingJobs = [i \in Inst |-> {}]
  /\ showLoadingSpinner = [i \in Inst |-> FALSE]
  /\ loadingSubscription = [i \in Inst |-> "open"]
  /\ cache = << >>
  /\ requests = <<>>
  /\ runs = 0
  /\ lastRun = [i \in Inst |-> [n |-> 0, outcome |-> "none"]]

(***************************************************************************)
(* NgxLinkPreviewComponent.                                                *)
(***************************************************************************)
\* JavaScript truthiness of what getCacheItem returns (metadata records are
\* objects, hence truthy)
Truthy(value) == value # Undefined

\* the callback setting the spinner and never clearing it
onHasPendingJobsLatched(hasJobs) == TRUE

\* constructor: the callback subscribed to loadingMgr.hasPendingJobs$
onHasPendingJobs(hasJobs) == hasJobs

\* showLoadingSpinner after the loading manager emitted for the pending set
\* jobs: the callback runs only while loadingSubscription is not unsubscribed
emitHasPendingJobs(spinner, subscription, jobs) ==
  IF subscription = "open" THEN onHasPendingJobs(hasPendingJobs(jobs)) ELSE spinner

\* checkInputParameters without its second test
checkInputParametersRouteOnly(route, endpoint) == route # <<>>

\* checkInputParameters: TRUE when it returns, FALSE when it throws
checkInputParameters(route, endpoint) == route # <<>> /\ endpoint

\* the two concatenations of lines 108-115 in the other order
scanLinksExplicitFirst(text, explicit) ==
  LET fromText == IF text # <<>> THEN <<>> \o parsedLinks[text] ELSE <<>>
  IN  IF Len(explicit) > 0 THEN explicit \o fromText ELSE fromText

\* lines 108-115: the extracted links, then the explicit links
scanLinks(text, explicit) ==
  LET fromText == IF text # <<>> THEN <<>> \o parsedLinks[text] ELSE <<>>
  IN  IF Len(explicit) > 0 THEN fromText \o explicit ELSE fromText

\* the request url without the separator before the encoded link
buildRequestUrlNoEquals(route, encodedLink) ==
  route \o <<63>> \o queryParamName \o encodedLink

\* line 119
buildRequestUrl(route, encodedLink) ==
  route \o <<63>> \o queryParamName \o <<61>> \o encodedLink

\* the metadata the endpoint answers call number n with; every answer is an
\* object of its own
Response(n, requestUrl) == [url |-> requestUrl, n |-> n]

\* lines 125-126 swapped: getApiEndpoint$ is called before addTask
dispatchCallFirst(acc, self, link, encodedLink, requestUrl) ==
  [acc EXCEPT
     !.jobs = addTask(acc.jobs, encodedLink),
     !.emitted = TRUE,
     !.reqs = Append(@, [inst |-> self.inst, run |-> self.run, link |-> link,
                         encodedLink |-> encodedLink,
                         requestUrl |-> requestUrl,
                         registered |-> encodedLink \in acc.jobs,
                         state |-> "sent", order |-> 0, seenRuns |-> 0])]

\* lines 125-126: addTask, then the call of getApiEndpoint$.  registered
\* records whether the key was pending when getApiEndpoint$ was called;
\* order and seenRuns are filled in when the call answers.
dispatch(acc, self, link, encodedLink, requestUrl) ==
  LET jobs == addTask(acc.jobs, encodedLink)
  IN  [acc EXCEPT
         !.jobs = jobs,
         !.emitted = TRUE,
         !.reqs = Append(@, [inst |-> self.inst, run |-> self.run, link |-> link,
                             encodedLink |-> encodedLink,
                             requestUrl |-> requestUrl,
                             registered |-> encodedLink \in jobs,
                             state |-> "sent", order |-> 0, seenRuns |-> 0])]

\* resolveLink with the cache lookup left out
resolveLinkAlwaysFetch(acc, self, link, encodedLink, requestUrl) ==
  dispatch(acc, self, link, encodedLink, requestUrl)

\* resolveLink taking only the cache entries stored by the component's own
\* calls, as if each component had a cache of its own
resolveLinkOwnEntries(acc, self, link, encodedLink, requestUrl) ==
  IF /\ self.useCache
     /\ Truthy(getCacheItem(self.store, encodedLink))
     /\ self.reqs[getCacheItem(self.store, encodedLink).n].inst = self.inst
  THEN [acc EXCEPT !.previews = Append(@, getCacheItem(self.store, encodedLink))]
  ELSE dispatch(acc, self, link, encodedLink, requestUrl)

\* resolveLink registering the key before it looks into the cache
resolveLinkAddTaskFirst(acc, self, link, encodedLink, requestUrl) ==
  IF self.useCache /\ Truthy(getCacheItem(self.store, encodedLink))
  THEN [acc EXCEPT !.previews = Append(@, getCacheItem(self.store, encodedLink)),
                   !.jobs = addTask(@, encodedLink)]
  ELSE dispatch(acc, self, link, encodedLink, requestUrl)

\* lines 122-131: the cache branch of one loop iteration
resolveLink(acc, self, link, encodedLink, requestUrl) ==
  IF self.useCache /\ Truthy(getCacheItem(self.store, encodedLink))
  THEN [acc EXCEPT !.previews = Append(@, getCacheItem(self.store, encodedLink))]
  ELSE dispatch(acc, self, link, encodedLink, requestUrl)

RECURSIVE forEachLink(_, _, _)
\* lines 117-132: the loop; an exception of btoa leaves it
forEachLink(todo, acc, self) ==
  IF todo = <<>> THEN acc
  ELSE IF BtoaThrows(Head(todo)) THEN [acc EXCEPT !.outcome = "encodingError"]
  ELSE LET encodedLink == encodedLinks[Head(todo)]
           requestUrl == buildRequestUrl(self.route, encodedLink)
       IN  forEachLink(Tail(todo),
                       resolveLink(acc, self, Head(todo), encodedLink, requestUrl),
                       self)

\* init(): self holds the inputs and the state init reads; the result holds
\* what init leaves behind
init(self) ==
  LET reset == [scannedLinks |-> <<>>, previews |-> <<>>, jobs |-> self.jobs,
                reqs |-> self.reqs, emitted |-> FALSE, outcome |-> "ok"]
  IN  IF ~checkInputParameters(self.route, self.endpoint)
      THEN [reset EXCEPT !.outcome = "configError"]
      ELSE LET scanned == scanLinks(self.text, self.links)
           IN  forEachLink(scanned, [reset EXCEPT !.scannedLinks = scanned], self)

\* ngOnChanges: the parent bound new inputs to instance i
ngOnChanges(i) ==
  /\ runs < MaxTriggers
  /\ loadingSubscription[i] = "open"
  /\ \E l \in LinkLists, t \in Texts, r \in Routes, g \in BOOLEAN, u \in BOOLEAN :
       LET self == [inst |-> i, run |-> runs + 1, links |-> l, text |-> t,
                    route |-> r, endpoint |-> g, useCache |-> u,
                    store |-> cache, jobs |-> pendingJobs[i], reqs |-> requests]
       IN  \E out \in {init(self)} :
           /\ Len(out.reqs) <= MaxRequests
           /\ links' = [links EXCEPT ![i] = l]
           /\ parseForLinksStr' = [parseForLinksStr EXCEPT ![i] = t]
           /\ apiRoute' = [apiRoute EXCEPT ![i] = r]
           /\ getApiEndpoint' = [getApiEndpoint EXCEPT ![i] = g]
           /\ useCache' = [useCache EXCEPT ![i] = u]
           /\ scannedLinks' = [scannedLinks EXCEPT ![i] = out.scannedLinks]
           /\ previews' = [previews EXCEPT ![i] = out.previews]
           /\ pendingJobs' = [pendingJobs EXCEPT ![i] = out.jobs]
           /\ showLoadingSpinner' =
                [showLoadingSpinner EXCEPT ![i] =
                   IF out.emitted
                   THEN emitHasPendingJobs(@, loadingSubscription[i], out.jobs)
                   ELSE @]
           /\ requests' = out.reqs
           /\ runs' = runs + 1
           /\ lastRun' = [lastRun EXCEPT ![i] = [n |-> runs + 1, outcome |-> out.outcome]]
           /\ UNCHANGED << cache, loadingSubscription >>

\* the callback pushing to the array of its own run instead of this.previews
pushResponseOwnRun(shown, shownRun, q, resp) ==
  IF q.run = shownRun THEN Append(shown, resp) ELSE shown

\* the callback putting its response at the front of the array
pushResponseFront(shown, shownRun, q, resp) == <<resp>> \o shown

\* line 129: this.previews.push(resp); shown is this.previews as it is when
\* the callback runs, shownRun the run that created that array
pushResponse(shown, shownRun, q, resp) == Append(shown, resp)

\* the callback keeping the entry a key already has
storeResponseKeepFirst(store, q, resp) ==
  IF q.encodedLink \in DOMAIN store THEN store
  ELSE updateCacheItem(store, q.encodedLink, resp)

\* line 127: this.cacheSvc.updateCacheItem(encodedLink, resp)
storeResponse(store, q, resp) == updateCacheItem(store, q.encodedLink, resp)

\* the number of calls that have answered
AnsweredCount == Cardinality({ m \in DOMAIN requests : requests[m].state = "done" })

\* lines 126-130: the endpoint answers call n and the subscribe callback
\* runs; the call is stamped with its place among the answers and with the
\* number of runs made so far
onResponse(n) ==
  /\ requests[n].state = "sent"
  /\ LET q == requests[n]
         resp == Response(n, q.requestUrl)
         jobs == removeTask(pendingJobs[q.inst], q.encodedLink)
     IN  /\ cache' = storeResponse(cache, q, resp)
         /\ pendingJobs' = [pendingJobs EXCEPT ![q.inst] = jobs]
         /\ showLoadingSpinner' =
              [showLoadingSpinner EXCEPT ![q.inst] =
                 emitHasPendingJobs(@, loadingSubscription[q.inst], jobs)]
         /\ previews' = [previews EXCEPT ![q.inst] =
                            pushResponse(@, lastRun[q.inst].n, q, resp)]
         /\ requests' = [requests EXCEPT ![n].state = "done",
                                         ![n].order = AnsweredCount + 1,
                                         ![n].seenRuns = runs]
  /\ UNCHANGED << inputs, scannedLinks, loadingSubscription, runs, lastRun >>

\* the observable of call n errors: subscribe was given no error callback
onError(n) ==
  /\ requests[n].state = "sent"
  /\ requests' = [requests EXCEPT ![n].state = "failed"]
  /\ UNCHANGED << inputs, scannedLinks, previews, pendingJobs, showLoadingSpinner,
                  loadingSubscription, cache, runs, lastRun >>

ngOnDestroy(i) ==
  /\ loadingSubscription[i] = "open"
  /\ loadingSubscription' = [loadingSubscription EXCEPT ![i] = "closed"]
  /\ UNCHANGED << inputs, scannedLinks, previews, pendingJobs, showLoadingSpinner,
                  cache, requests, runs, lastRun >>

Next ==
  \/ \E i \in Page : ngOnChanges(i)
  \/ \E n \in DOMAIN requests : onResponse(n)
  \/ \E n \in DOMAIN requests : onError(n)
  \/ \E i \in Page : ngOnDestroy(i)

Spec == Init /\ [][Next]_vars

(***************************************************************************)
(* Vocabulary of the properties.                                           *)
(***************************************************************************)
\* the calls of getApiEndpoint$ that have neither answered nor failed
InFlight == { n \in DOMAIN requests : requests[n].state = "sent" }

\* this step is a run of init() in instance i
Triggered(i) == lastRun'[i].n # lastRun[i].n

\* this step is the answer to call n
Answered(n) == requests[n].state = "sent" /\ requests'[n].state = "done"

\* the calls this step adds
NewCalls == (Len(requests) + 1)..Len(requests')

\* the inputs of instance i fail validation
ConfigMissing(route, endpoint) == route = <<>> \/ ~endpoint

\* the candidate links of inputs: extracted first, explicit after
CandidatesOf(text, explicit) == parsedLinks[text] \o explicit

RECURSIVE Reached(_)
\* the candidates a run gets to: those before the first one btoa rejects
Reached(cands) ==
  IF cands = <<>> \/ BtoaThrows(Head(cands)) THEN <<>>
  ELSE <<Head(cands)>> \o Reached(Tail(cands))

TargetOf(route, link) ==
  route \o Str(<<"qm">>) \o queryParamName \o Str(<<"eq">>) \o encodedLinks[link]

NoDuplicates(seq) == \A a, b \in DOMAIN seq : seq[a] = seq[b] => a = b

(***************************************************************************)
(* Properties.                                                             *)
(***************************************************************************)
\* C1: in a run of init() with useCache = true, every candidate link the run
\* reaches whose encoded key has a cache entry gets that entry appended to
\* previews and no call of getApiEndpoint$ is made for its key; so a second
\* run for an already cached link makes no additional call.
CachedLinkIsShownNotFetched ==
  [][\A i \in Inst :
       (Triggered(i) /\ useCache'[i]
          /\ ~ConfigMissing(apiRoute'[i], getApiEndpoint'[i])) =>
         LET reached == Reached(CandidatesOf(parseForLinksStr'[i], links'[i]))
         IN  \A j \in DOMAIN reached :
               LET key == encodedLinks[reached[j]]
               IN  key \in DOMAIN cache =>
                     /\ \E k \in DOMAIN previews'[i] : previews'[i][k] = cache[key]
                     /\ \A n \in NewCalls : requests'[n].encodedLink # key
    ]_vars

\* a second run, with useCache, whose candidates were all cached by the first
\* run's answers: previews come from the cache and no call belongs to it
SecondRunServedFromCache ==
  \E i \in Inst :
    /\ lastRun[i] = [n |-> 2, outcome |-> "ok"]
    /\ useCache[i]
    /\ scannedLinks[i] # <<>>
    /\ Len(previews[i]) = Len(scannedLinks[i])
    /\ \A j \in DOMAIN scannedLinks[i] :
         /\ encodedLinks[scannedLinks[i][j]] \in DOMAIN cache
         /\ previews[i][j] = cache[encodedLinks[scannedLinks[i][j]]]
    /\ \A n \in DOMAIN requests : requests[n].run = 1 /\ requests[n].state = "done"

\* C2: at most one call of getApiEndpoint$ is in flight for any encoded key.
AtMostOneFetchPerKey ==
  \A m, n \in InFlight :
    requests[m].encodedLink = requests[n].encodedLink => m = n

\* C3: a run that fails validation (apiRoute or getApiEndpoint$ missing)
\* leaves previews as it was before the run.
FailedTriggerKeepsPreviews ==
  [][\A i \in Inst :
       (Triggered(i) /\ ConfigMissing(apiRoute'[i], getApiEndpoint'[i])) =>
         previews'[i] = previews[i]
    ]_vars

\* C4: a run that fails validation makes no call of getApiEndpoint$, adds no
\* key to the pending set and leaves the cache unchanged, whatever links and
\* free text are bound.
FailedTriggerDispatchesNothing ==
  [][\A i \in Inst :
       (Triggered(i) /\ ConfigMissing(apiRoute'[i], getApiEndpoint'[i])) =>
         /\ requests' = requests
         /\ pendingJobs' = pendingJobs
         /\ cache' = cache
    ]_vars

\* the latest run failed validation although links and free text were bound
FailedTriggerWithLinksBound ==
  \E i \in Inst :
    /\ lastRun[i].n > 0
    /\ lastRun[i].outcome = "configError"
    /\ ConfigMissing(apiRoute[i], getApiEndpoint[i])
    /\ links[i] # <<>>
    /\ parseForLinksStr[i] # <<>>

\* C5 as stated: in every reachable state showLoadingSpinner is true exactly
\* when the pending set is non-empty.
SpinnerMirrorsPendingSet ==
  \A i \in Inst : showLoadingSpinner[i] <=> (pendingJobs[i] # {})

\* C5 as amended: while the component's subscription to hasPendingJobs$ is
\* open (before ngOnDestroy), showLoadingSpinner is true exactly when the
\* pending set is non-empty.
SpinnerMirrorsPendingSetWhileSubscribed ==
  \A i \in Inst :
    loadingSubscription[i] = "open" =>
      (showLoadingSpinner[i] <=> (pendingJobs[i] # {}))

\* two distinct keys were pending, one was removed by its answer, and the
\* spinner of the still subscribed component is still on
SpinnerOnUntilLastKeyRemoved ==
  \E i \in Inst :
    /\ loadingSubscription[i] = "open"
    /\ showLoadingSpinner[i]
    /\ Cardinality(pendingJobs[i]) = 1
    /\ \E n \in DOMAIN requests :
         /\ requests[n].inst = i
         /\ requests[n].state = "done"
         /\ requests[n].encodedLink \notin pendingJobs[i]

\* C6: whenever a call of getApiEndpoint$ is outstanding, also one of two for
\* the same key, the loading signal of its component is true.
OutstandingFetchShowsLoading ==
  \A n \in InFlight : pendingJobs[requests[n].inst] # {}

CandidatesResolvedInOrder ==
  [][\A i \in Inst :
       (Triggered(i) /\ ~ConfigMissing(apiRoute'[i], getApiEndpoint'[i])) =>
         LET cands == CandidatesOf(parseForLinksStr'[i], links'[i])
             reached == Reached(cands)
             Hit(u) == useCache'[i] /\ encodedLinks[u] \in DOMAIN cache
             Miss(u) == ~Hit(u)
             hits == SelectSeq(reached, Hit)
             misses == SelectSeq(reached, Miss)
         IN  /\ scannedLinks'[i] = cands
             /\ Len(requests') = Len(requests) + Len(misses)
             /\ \A k \in DOMAIN misses :
                  requests'[Len(requests) + k].link = misses[k]
             /\ Len(previews'[i]) = Len(hits)
             /\ \A k \in DOMAIN hits :
                  previews'[i][k] = cache[encodedLinks[hits[k]]]
    ]_vars

\* a first run fetched the explicit links CD, AB in that order; a second run
\* over the free text and the same explicit links was served from the cache
\* in candidate order AB, CD, CD, AB
ExtractedThenExplicitInOrder ==
  \E i \in Inst :
    /\ lastRun[i] = [n |-> 2, outcome |-> "ok"]
    /\ parseForLinksStr[i] = TextTwoLinks
    /\ links[i] = <<UrlCD, UrlAB>>
    /\ scannedLinks[i] = <<UrlAB, UrlCD, UrlCD, UrlAB>>
    /\ Len(requests) = 2
    /\ requests[1].link = UrlCD
    /\ requests[2].link = UrlAB
    /\ previews[i] = << cache[encodedLinks[UrlAB]], cache[encodedLinks[UrlCD]],
                        cache[encodedLinks[UrlCD]], cache[encodedLinks[UrlAB]] >>

\* C9: on a miss the key is pending before getApiEndpoint$ is called; the
\* step in which the call answers with r stores r in the cache under the
\* key, removes the key from the pending set and appends r to previews; no
\* other step stores into the cache, removes a pending key or shows an
\* answer that has not arrived.
PendingBeforeCallEffectsAtAnswer ==
  [][ /\ \A n \in NewCalls :
           /\ requests'[n].registered
           /\ requests'[n].encodedLink \in pendingJobs'[requests'[n].inst]
      /\ \A n \in DOMAIN requests :
           Answered(n) =>
             LET q == requests[n]
                 r == Response(n, q.requestUrl)
             IN  /\ DOMAIN cache' = DOMAIN cache \cup {q.encodedLink}
                 /\ cache'[q.encodedLink] = r
                 /\ \A k \in DOMAIN cache \ {q.encodedLink} : cache'[k] = cache[k]
                 /\ pendingJobs'[q.inst] = pendingJobs[q.inst] \ {q.encodedLink}
                 /\ previews'[q.inst] = Append(previews[q.inst], r)
      /\ (\A n \in DOMAIN requests : ~Answered(n)) =>
           /\ cache' = cache
           /\ \A i \in Inst : pendingJobs[i] \subseteq pendingJobs'[i]
      /\ \A n \in DOMAIN requests' :
           requests'[n].state = "sent" =>
             LET r == Response(n, requests'[n].requestUrl)
             IN  /\ \A k \in DOMAIN cache' : cache'[k] # r
                 /\ \A i \in Inst : \A k \in DOMAIN previews'[i] : previews'[i][k] # r
    ]_vars

\* one call has answered (cached, no longer pending, shown) while another
\* call of the same component is still out (pending, neither cached nor shown)
OneAnsweredOneOutstanding ==
  \E m, n \in DOMAIN requests :
    /\ requests[m].state = "done" /\ requests[n].state = "sent"
    /\ requests[m].inst = requests[n].inst
    /\ requests[m].registered /\ requests[n].registered
    /\ cache[requests[m].encodedLink] = Response(m, requests[m].requestUrl)
    /\ requests[m].encodedLink \notin pendingJobs[requests[m].inst]
    /\ previews[requests[m].inst] = << Response(m, requests[m].requestUrl) >>
    /\ requests[n].encodedLink \in pendingJobs[requests[n].inst]
    /\ requests[n].encodedLink \notin DOMAIN cache

\* C10: a new run does not cancel the calls of earlier runs, and the answer
\* to a call of an earlier run still updates the cache and the pending set
\* and is appended to previews as it is at that time (the array of the
\* newest run), also when its link is no candidate of the newest run.
LateAnswerLandsInCurrentList ==
  [][\A n \in DOMAIN requests :
       /\ (requests[n].state = "sent" /\ \E i \in Inst : Triggered(i)) =>
            requests'[n] = requests[n]
       /\ (Answered(n) /\ requests[n].run < lastRun[requests[n].inst].n) =>
            LET q == requests[n]
                r == Response(n, q.requestUrl)
            IN  /\ cache'[q.encodedLink] = r
                /\ q.encodedLink \notin pendingJobs'[q.inst]
                /\ previews'[q.inst] = Append(previews[q.inst], r)
    ]_vars

\* the answer to a call of run 1 is shown in the list of run 2 although its
\* link is no candidate of run 2
LateAnswerShownAfterReset ==
  \E n \in DOMAIN requests :
    LET q == requests[n]
    IN  /\ q.state = "done"
        /\ q.run < lastRun[q.inst].n
        /\ lastRun[q.inst].outcome = "ok"
        /\ scannedLinks[q.inst] # <<>>
        /\ q.link \notin Range(scannedLinks[q.inst])
        /\ \E k \in DOMAIN previews[q.inst] :
             previews[q.inst][k] = Response(n, q.requestUrl)
        /\ cache[q.encodedLink] = Response(n, q.requestUrl)

\* call n went from outstanding to failed in this step
Failed(n) == requests[n].state = "sent" /\ requests'[n].state = "failed"

\* the candidates of a run that the encoder accepts
Encodable(cands) == SelectSeq(cands, LAMBDA link : ~BtoaThrows(link))

\* C11: a call that has not answered (and may never answer) keeps its key in
\* the pending set of its component and keeps the loading signal true, in
\* every state after its dispatch, whatever runs and answers happen meanwhile.
HungFetchStaysPending ==
  \A n \in InFlight :
    /\ requests[n].encodedLink \in pendingJobs[requests[n].inst]
    /\ hasPendingJobs(pendingJobs[requests[n].inst])

\* C12: a candidate the encoder rejects is skipped and every other candidate
\* of the same run, before and after it, is served from the cache or gets a
\* call of getApiEndpoint$.
EncodingFailureIsContained ==
  [][\A i \in Inst :
       (Triggered(i) /\ ~ConfigMissing(apiRoute'[i], getApiEndpoint'[i])) =>
         LET cands == CandidatesOf(parseForLinksStr'[i], links'[i])
         IN  \A j \in DOMAIN cands :
               ~BtoaThrows(cands[j]) =>
                 LET key == encodedLinks[cands[j]]
                 IN  \/ \E n \in NewCalls : requests'[n].encodedLink = key
                     \/ /\ useCache'[i]
                        /\ key \in DOMAIN cache
                        /\ \E k \in DOMAIN previews'[i] :
                             previews'[i][k] = cache[key]
    ]_vars

\* C13: when a call ends in failure its key leaves the pending set, the cache
\* is unchanged, nothing is appended to previews, and the other calls are
\* left as they were.
FailedFetchIsCleanedUp ==
  [][\A n \in DOMAIN requests :
       Failed(n) =>
         /\ requests[n].encodedLink \notin pendingJobs'[requests[n].inst]
         /\ cache' = cache
         /\ previews' = previews
         /\ \A m \in DOMAIN requests : m # n => requests'[m] = requests[m]
    ]_vars

\* the calls for key that have answered, in the state after the step
DoneNext(key) ==
  { n \in DOMAIN requests' :
      requests'[n].state = "done" /\ requests'[n].encodedLink = key }

\* C14: the set of cached keys only grows, it is the set of keys for which a
\* call has answered, and the entry under a key is the answer of the call
\* for that key that answered last.
CacheHoldsLatestAnswer ==
  [][/\ DOMAIN cache \subseteq DOMAIN cache'
     /\ DOMAIN cache' =
          { requests'[n].encodedLink : n \in { m \in DOMAIN requests' :
                                                 requests'[m].state = "done" } }
     /\ \A key \in DOMAIN cache' :
          \E n \in DoneNext(key) :
            /\ \A m \in DoneNext(key) : requests'[m].order <= requests'[n].order
            /\ getCacheItem(cache', key) = Response(n, requests'[n].requestUrl)
    ]_vars

\* two calls for one key have answered and the cache holds the later answer,
\* not the earlier one
RefetchOverwroteEntry ==
  \E m, n \in DOMAIN requests :
    /\ m # n
    /\ requests[m].state = "done" /\ requests[n].state = "done"
    /\ requests[m].encodedLink = requests[n].encodedLink
    /\ requests[m].order < requests[n].order
    /\ cache[requests[n].encodedLink] = Response(n, requests[n].requestUrl)
    /\ cache[requests[n].encodedLink] # Response(m, requests[m].requestUrl)

\* the calls of component i that answered after its latest run reset previews
AnsweredSinceReset(i) ==
  { n \in DOMAIN requests :
      /\ requests[n].inst = i
      /\ requests[n].state = "done"
      /\ requests[n].seenRuns >= lastRun[i].n }

\* the calls for key that had answered when the latest run of i began
AnsweredBeforeReset(i, key) ==
  { n \in DOMAIN requests :
      /\ requests[n].state = "done"
      /\ requests[n].encodedLink = key
      /\ requests[n].seenRuns < lastRun[i].n }

\* the cache entry under key when the latest run of i began
EntryAtReset(i, key) ==
  LET n == CHOOSE a \in AnsweredBeforeReset(i, key) :
             \A b \in AnsweredBeforeReset(i, key) :
               requests[b].order <= requests[a].order
  IN  Response(n, requests[n].requestUrl)

\* the cache hits of the latest run of i, in candidate order
HitsOf(i) ==
  LET hit(link) == useCache[i] /\ AnsweredBeforeReset(i, encodedLinks[link]) # {}
      hitLinks == SelectSeq(Reached(scannedLinks[i]), hit)
  IN  [j \in DOMAIN hitLinks |-> EntryAtReset(i, encodedLinks[hitLinks[j]])]

\* C15: previews is the cache hits of the latest run, in candidate order,
\* followed by the answers received since that run's reset, in the order in
\* which the calls answered (not the order of the links).
FetchResultsInCompletionOrder ==
  \A i \in Inst :
    LET hits == HitsOf(i)
        late == AnsweredSinceReset(i)
        tail == [j \in 1..Cardinality(late) |-> previews[i][Len(hits) + j]]
    IN  /\ Len(previews[i]) = Len(hits) + Cardinality(late)
        /\ SubSeq(previews[i], 1, Len(hits)) = hits
        /\ \A j \in DOMAIN tail :
             /\ tail[j].n \in late
             /\ tail[j] = Response(tail[j].n, requests[tail[j].n].requestUrl)
        /\ \A a, b \in DOMAIN tail :
             a < b => requests[tail[a].n].order < requests[tail[b].n].order

\* two calls of one run answered in the reverse of their link order, and
\* previews shows the two answers in the order in which they arrived
AnswersShownInArrivalOrder ==
  \E i \in Inst : \E m, n \in AnsweredSinceReset(i) :
    /\ m < n
    /\ requests[m].run = requests[n].run
    /\ requests[n].order < requests[m].order
    /\ previews[i] = << Response(n, requests[n].requestUrl),
                        Response(m, requests[m].requestUrl) >>

\* C16: with useCache = false a run calls getApiEndpoint$ once for every
\* candidate that has a key, in candidate order, whether or not the cache
\* holds the key, and appends nothing to previews itself; every answer is
\* still written to the cache.
UncachedRunFetchesEveryLink ==
  [][/\ \A i \in Inst :
          (Triggered(i) /\ ~useCache'[i]
             /\ ~ConfigMissing(apiRoute'[i], getApiEndpoint'[i])) =>
            LET cands == Encodable(CandidatesOf(parseForLinksStr'[i], links'[i]))
            IN  /\ previews'[i] = <<>>
                /\ Len(requests') = Len(requests) + Len(cands)
                /\ \A j \in DOMAIN cands :
                     requests'[Len(requests) + j].link = cands[j]
     /\ \A n \in DOMAIN requests :
          (Answered(n) /\ ~useCache[requests[n].inst]) =>
            getCacheItem(cache', requests[n].encodedLink)
              = Response(n, requests[n].requestUrl)
    ]_vars

\* A page with two components, A and B, which share the injected cache
\* service (constructor, lines 80-83); each has its own loading manager
\* (line 75).  Both are bound to a route, an endpoint and explicit links.
ngOnChangesBound(i) ==
  /\ ngOnChanges(i)
  /\ ~ConfigMissing(apiRoute'[i], getApiEndpoint'[i])
  /\ parseForLinksStr'[i] = <<>>

NextShared ==
  \/ \E i \in Inst : ngOnChangesBound(i)
  \/ \E n \in DOMAIN requests : onResponse(n)
  \/ \E n \in DOMAIN requests : onError(n)
  \/ \E i \in Inst : ngOnDestroy(i)

SpecShared == Init /\ [][NextShared]_vars

AllAnswered == \A n \in DOMAIN requests : requests[n].state = "done"

\* previews of component i holds an answer for link
Previewed(i, link) ==
  \E k \in DOMAIN previews[i] :
    requests[previews[i][k].n].encodedLink = encodedLinks[link]

\* C18: once the runs have stopped with a valid configuration and every
\* call has answered, the pending set is empty, the loading signal is false
\* and previews holds a preview for every candidate of the latest run that
\* has a key.  A state in which every call has answered is the state the
\* component rests in when no further run is made.
QuiescentRunShowsEveryLink ==
  \A i \in Inst :
    (/\ lastRun[i].n > 0
     /\ ~ConfigMissing(apiRoute[i], getApiEndpoint[i])
     /\ AllAnswered) =>
      /\ pendingJobs[i] = {}
      /\ ~hasPendingJobs(pendingJobs[i])
      /\ loadingSubscription[i] = "open" => ~showLoadingSpinner[i]
      /\ \A c \in DOMAIN Encodable(scannedLinks[i]) :
           Previewed(i, Encodable(scannedLinks[i])[c])

\* C19: while no call has failed, every key in a component's pending set has
\* a call of that component for that key still outstanding, so the loading
\* signal is not true when no call of the component is in flight.
NoStalePendingKey ==
  (\A n \in DOMAIN requests : requests[n].state # "failed") =>
    \A i \in Inst :
      /\ \A key \in pendingJobs[i] :
           \E n \in InFlight :
             requests[n].inst = i /\ requests[n].encodedLink = key
      /\ hasPendingJobs(pendingJobs[i]) =>
           \E n \in InFlight : requests[n].inst = i

\* a key was pending, its call answered and removed it, and a later run
\* asked for the same key again: the key is pending for the outstanding call
PendingAgainForOutstandingRerun ==
  \E i \in Inst : \E m, n \in DOMAIN requests :
    /\ requests[m].inst = i /\ requests[n].inst = i
    /\ requests[m].run < requests[n].run
    /\ requests[m].encodedLink = requests[n].encodedLink
    /\ requests[m].state = "done"
    /\ requests[n].state = "sent"
    /\ \A a \in DOMAIN requests : requests[a].state # "failed"
    /\ pendingJobs[i] = { requests[n].encodedLink }
====
